---------------------------- MODULE Spec2Model ----------------------------
(***************************************************************************)
(* A model of libsocks5 (src/sockslib.c): the per-session context, the     *)
(* public operations that mutate it, the frames they put on the wire and   *)
(* the operating-system resources (descriptors, resolver lists) they own.  *)
(*                                                                         *)
(* C strings are sequences of byte values (no 0 byte); NULLSTR stands for  *)
(* a null pointer.  A buffer is written only from its start, so it is kept *)
(* as the cells written so far (pre) and the byte every later cell holds   *)
(* (rest).                                                                 *)
(***************************************************************************)
EXTENDS Integers, Sequences, FiniteSets, TLC

(***************************************************************************)
(* Protocol constants (sockslib.h).                                        *)
(***************************************************************************)
SOCKS_VERSION == 5
SOCKS_AUTH_VERSION == 1
SOCKS_NO_AUTH == 0
SOCKS_AUTH_USERPASS == 2
SOCKS_CMD_CONNECT == 1
SOCKS_ATYP_IPV4 == 1
SOCKS_ATYP_NAME == 3
SOCKS_ATYP_IPV6 == 4

(***************************************************************************)
(* enum socks_err, in the order of the string table of socks_strerror.     *)
(***************************************************************************)
SOCKS_ERR_OK == 0
SOCKS_ERR_SERV_FAIL == 1
SOCKS_ERR_CONN_NOTALLOWED == 2
SOCKS_ERR_NET_UNREACH == 3
SOCKS_ERR_HOST_UNREACH == 4
SOCKS_ERR_CONN_REFUSED == 5
SOCKS_ERR_TTL_EXPIRED == 6
SOCKS_ERR_CMD_NOTSUPP == 7
SOCKS_ERR_ADDR_NOTSUPP == 8
SOCKS_ERR_AUTH_NOTSUPP == 9
SOCKS_ERR_BAD_AUTH == 10
SOCKS_ERR_TOO_LONG == 11
SOCKS_ERR_NO_MEM == 12
SOCKS_ERR_BAD_ARG == 13
SOCKS_ERR_EMPTY == 14
SOCKS_ERR_SYS_ERRNO == 15

\* The members of the taxonomy a SOCKS server reports (reply codes 1..8).
ServerSideErrs == SOCKS_ERR_SERV_FAIL .. SOCKS_ERR_ADDR_NOTSUPP

\* The members of the taxonomy produced by the client itself.
ClientSideErrs == SOCKS_ERR_AUTH_NOTSUPP .. SOCKS_ERR_SYS_ERRNO

(***************************************************************************)
(* Sizes.                                                                  *)
(***************************************************************************)
IP4_LEN == 4
IP6_LEN == 16
MAX_FIELD_LEN == 255

Byte == 0 .. 255

NULLSTR == <<0>>

\* !s || !*s
IsEmptyStr(s) == s = NULLSTR \/ Len(s) = 0

strlen(s) == Len(s)

\* n copies of byte b.
Fill(n, b) == [i \in 1 .. n |-> b]

\* The first n elements of a sequence.
Prefix(s, n) == [i \in 1 .. n |-> s[i]]

\* A buffer whose every cell holds b (memset, or fresh memory).
Buf(b) == [pre |-> <<>>, rest |-> b]

\* Cell i (from 1) of a buffer.
Cell(buf, i) == IF i <= Len(buf.pre) THEN buf.pre[i] ELSE buf.rest

\* The first n cells of a buffer, as memcpy(dst, buf, n) reads them.
BufRead(buf, n) == [i \in 1 .. n |-> Cell(buf, i)]

\* The written cells without a tail that equals the rest.
RECURSIVE Trim(_, _)
Trim(pre, rest) ==
  IF Len(pre) > 0 /\ pre[Len(pre)] = rest
    THEN Trim(Prefix(pre, Len(pre) - 1), rest)
    ELSE pre

\* memcpy(buf, src, n): the first n cells of buf replaced by those of src.
memcpy(buf, src, n) ==
  LET m == IF Len(buf.pre) > n THEN Len(buf.pre) ELSE n
  IN [buf EXCEPT !.pre =
        Trim([i \in 1 .. m |-> IF i <= n THEN src[i] ELSE buf.pre[i]],
             buf.rest)]

(***************************************************************************)
(* Text conversions of the C library that the setters call.                *)
(***************************************************************************)
IsDigit(ch) == ch >= 48 /\ ch <= 57

\* The value of a hexadecimal digit (case-insensitive), or -1.
XDigit(ch) ==
  IF ch >= 48 /\ ch <= 57 THEN ch - 48
  ELSE IF ch >= 97 /\ ch <= 102 THEN ch - 87
  ELSE IF ch >= 65 /\ ch <= 70 THEN ch - 55
  ELSE -1

\* atoi: an optional sign and the leading decimal digits; 0 when none.
RECURSIVE AtoiDigits(_, _, _)
AtoiDigits(s, i, acc) ==
  IF i > Len(s) \/ ~IsDigit(s[i]) THEN acc
  ELSE AtoiDigits(s, i + 1, acc * 10 + (s[i] - 48))

atoi(s) ==
  IF Len(s) > 0 /\ s[1] = 45 THEN 0 - AtoiDigits(s, 2, 0)
  ELSE IF Len(s) > 0 /\ s[1] = 43 THEN AtoiDigits(s, 2, 0)
  ELSE AtoiDigits(s, 1, 0)

\* htons(int): the value narrowed to 16 bits, as its two bytes in memory
\* (network order: high byte first).
htons(v) == LET u == v % 65536 IN <<u \div 256, u % 256>>

\* inet_pton(AF_INET): dotted decimal, exactly four octets of at most 255,
\* no leading zero.  The result is <<>> when the text is malformed.
RECURSIVE Pton4(_, _, _, _)
Pton4(s, i, done, cur) ==
  \* done: the octets completed; cur: -1 (no digit seen) or the octet so far
  IF i > Len(s)
    THEN IF cur >= 0 /\ Len(done) = IP4_LEN - 1 THEN Append(done, cur) ELSE <<>>
  ELSE IF IsDigit(s[i])
    THEN LET new == (IF cur < 0 THEN 0 ELSE cur) * 10 + (s[i] - 48) IN
         IF cur = 0 \/ new > 255 \/ (cur < 0 /\ Len(done) >= IP4_LEN) THEN <<>>
         ELSE Pton4(s, i + 1, done, new)
  ELSE IF s[i] = 46 /\ cur >= 0
    THEN IF Len(done) >= IP4_LEN - 1 THEN <<>>
         ELSE Pton4(s, i + 1, Append(done, cur), -1)
  ELSE <<>>

inet_pton4(s) == Pton4(s, 1, <<>>, -1)

\* inet_pton(AF_INET6): groups of hexadecimal digits separated by ':',
\* with at most one "::".  q.tp: bytes written; q.colonp: -1 or the offset
\* of the "::"; q.val: -1 (no digit seen) or the group so far.
\* (The embedded dotted-quad form is not among the inputs.)
RECURSIVE Pton6(_, _, _)
Pton6(s, i, q) ==
  IF i > Len(s)
    THEN LET tp == IF q.val >= 0
                     THEN q.tp \o <<q.val \div 256, q.val % 256>>
                     ELSE q.tp
         IN IF Len(tp) > IP6_LEN THEN <<>>
            ELSE IF q.colonp >= 0
              THEN IF Len(tp) = IP6_LEN THEN <<>>
                   ELSE Prefix(tp, q.colonp)
                        \o Fill(IP6_LEN - Len(tp), 0)
                        \o SubSeq(tp, q.colonp + 1, Len(tp))
            ELSE IF Len(tp) = IP6_LEN THEN tp ELSE <<>>
  ELSE IF XDigit(s[i]) >= 0
    THEN LET v == (IF q.val < 0 THEN 0 ELSE q.val) * 16 + XDigit(s[i]) IN
         IF v > 65535 THEN <<>> ELSE Pton6(s, i + 1, [q EXCEPT !.val = v])
  ELSE IF s[i] = 58
    THEN IF q.val < 0
           THEN IF q.colonp >= 0 THEN <<>>
                ELSE Pton6(s, i + 1, [q EXCEPT !.colonp = Len(q.tp)])
         ELSE IF i = Len(s) THEN <<>>
         ELSE IF Len(q.tp) + 2 > IP6_LEN THEN <<>>
         ELSE Pton6(s, i + 1,
                    [q EXCEPT !.tp = q.tp \o <<q.val \div 256, q.val % 256>>,
                              !.val = -1])
  ELSE <<>>

inet_pton6(s) ==
  IF Len(s) >= 1 /\ s[1] = 58
    THEN IF Len(s) >= 2 /\ s[2] = 58
           THEN Pton6(s, 2, [tp |-> <<>>, colonp |-> -1, val |-> -1])
           ELSE <<>>
    ELSE Pton6(s, 1, [tp |-> <<>>, colonp |-> -1, val |-> -1])

(***************************************************************************)
(* Collaborators of the core: the reliable send/receive primitives.        *)
(* Each transfers exactly the requested number of bytes or fails.          *)
(***************************************************************************)
\* sockslib_send(fd, buf, len): 0 when every byte was written.
sockslib_send(ok) == IF ok THEN 0 ELSE 0 - SOCKS_ERR_SYS_ERRNO

\* sockslib_read(fd, buf, len) on a stream that holds `avail` bytes and is
\* then either closed by the peer (eof) or left open and silent:
\* "ok", "fail" (error or end of stream before len bytes) or "block".
sockslib_read(len, avail, eof, err) ==
  IF err THEN [how |-> "fail", ret |-> 0 - SOCKS_ERR_SYS_ERRNO, got |-> 0]
  ELSE IF avail >= len THEN [how |-> "ok", ret |-> 0, got |-> len]
  ELSE IF eof THEN [how |-> "fail", ret |-> 0 - SOCKS_ERR_EMPTY, got |-> avail]
  ELSE [how |-> "block", ret |-> 0, got |-> avail]

(***************************************************************************)
(* The context (struct socks_ctx).                                         *)
(***************************************************************************)
NULLADDR == [list |-> 0, node |-> 0]
NOFD == -1

\* server_clear(ctx)
server_clear(c) ==
  [c EXCEPT !.server = [s_addr |-> NULLADDR, s_port |-> <<0, 0>>, fd |-> NOFD]]

\* auth_clear(ctx)
auth_clear(c) ==
  [c EXCEPT !.auth = [method |-> 0, authed |-> 0,
                      username |-> Buf(0),
                      password |-> Buf(0),
                      user_len |-> 0, pass_len |-> 0]]

\* The memory malloc returns: every cell holds the indeterminate byte g.
RawCtx(g) ==
  [atyp |-> g, d_addr |-> Buf(g), d_port |-> <<g, g>>,
   d_name_len |-> g, reply |-> g, ver |-> g,
   auth |-> [method |-> g, authed |-> g, username |-> Buf(g),
             password |-> Buf(g), user_len |-> g, pass_len |-> g],
   server |-> [s_addr |-> NULLADDR, s_port |-> <<g, g>>, fd |-> NOFD]]

\* socks_init without the call of auth_clear: the authentication fields keep
\* what the memory held.
socks_init_NoAuthClear(g) ==
  LET raw == RawCtx(g)
      c == [raw EXCEPT !.atyp = 0,
                       !.d_addr = memcpy(raw.d_addr, <<0>>, 1),
                       !.d_port = <<0, 0>>,
                       !.d_name_len = 0,
                       !.reply = -1,
                       !.ver = SOCKS_VERSION]
  IN server_clear(c)

\* socks_init(), after a successful malloc whose memory holds g.
socks_init(g) ==
  LET raw == RawCtx(g)
      c == [raw EXCEPT !.atyp = 0,
                       !.d_addr = memcpy(raw.d_addr, <<0>>, 1),
                       !.d_port = <<0, 0>>,
                       !.d_name_len = 0,
                       !.reply = -1,
                       !.ver = SOCKS_VERSION]
  IN server_clear(auth_clear(c))

(***************************************************************************)
(* Error strings.                                                          *)
(***************************************************************************)
\* static const char *str[] of socks_strerror; str[k] is StrTable[k + 1].
StrTable ==
  <<"", "SOCKS server failure", "Connection not allowed",
    "Network unreachable", "Host unreachable",
    "Connection refused", "TTL expired", "Command not supported",
    "Address type not supported", "Authentication method not supported",
    "Invalid authentication", "Value too long",
    "Out of memory", "Invalid argument",
    "Empty Request/Response", "System error (check errno)">>

UNKNOWN_ERROR == "Unknown error"

\* socks_strerror without "code = (code < 0) ? -code : code".
socks_strerror_Signed(code) ==
  IF code >= SOCKS_ERR_OK /\ code <= SOCKS_ERR_SYS_ERRNO
    THEN StrTable[code + 1]
    ELSE UNKNOWN_ERROR

\* socks_strerror(code)
socks_strerror(code) ==
  LET c == IF code < 0 THEN 0 - code ELSE code
  IN IF c >= SOCKS_ERR_OK /\ c <= SOCKS_ERR_SYS_ERRNO
       THEN StrTable[c + 1]
       ELSE UNKNOWN_ERROR

(***************************************************************************)
(* Credentials.                                                            *)
(***************************************************************************)
\* socks_set_auth(ctx, u, p) on a live context.
socks_set_auth(c, u, p) ==
  IF IsEmptyStr(u) \/ IsEmptyStr(p)
    THEN [ctx |-> c, ret |-> 0 - SOCKS_ERR_BAD_ARG]
  ELSE LET ul == strlen(u)
           pl == strlen(p)
       IN IF ul > MAX_FIELD_LEN \/ pl > MAX_FIELD_LEN
            THEN [ctx |-> c, ret |-> 0 - SOCKS_ERR_BAD_AUTH]
            ELSE [ctx |-> [c EXCEPT !.auth.username = memcpy(@, u, ul),
                                    !.auth.password = memcpy(@, p, pl),
                                    !.auth.user_len = ul,
                                    !.auth.pass_len = pl],
                  ret |-> SOCKS_ERR_OK]

(***************************************************************************)
(* Destination setters.                                                    *)
(***************************************************************************)
\* socks_setaddr(type, dest, ip): the binary address is written over the
\* start of dest only when the text converts.
socks_setaddr(type, dest, ip) ==
  LET bin == IF type = "AF_INET" THEN inet_pton4(ip) ELSE inet_pton6(ip)
  IN IF bin = <<>>
       THEN [dest |-> dest, ret |-> 0 - SOCKS_ERR_ADDR_NOTSUPP]
       ELSE [dest |-> memcpy(dest, bin, Len(bin)), ret |-> SOCKS_ERR_OK]

\* socks_set_addr4(ctx, ip, port) on a live context.
socks_set_addr4(c, ip, port) ==
  IF IsEmptyStr(ip) \/ IsEmptyStr(port)
    THEN [ctx |-> c, ret |-> 0 - SOCKS_ERR_BAD_ARG]
  ELSE LET c1 == [c EXCEPT !.atyp = SOCKS_ATYP_IPV4,
                           !.d_port = htons(atoi(port))]
           r == socks_setaddr("AF_INET", c1.d_addr, ip)
       IN [ctx |-> [c1 EXCEPT !.d_addr = r.dest], ret |-> r.ret]

\* socks_set_addr6(ctx, ip, port) on a live context.
socks_set_addr6(c, ip, port) ==
  IF IsEmptyStr(ip) \/ IsEmptyStr(port)
    THEN [ctx |-> c, ret |-> 0 - SOCKS_ERR_BAD_ARG]
  ELSE LET c1 == [c EXCEPT !.atyp = SOCKS_ATYP_IPV6,
                           !.d_port = htons(atoi(port))]
           r == socks_setaddr("AF_INET6", c1.d_addr, ip)
       IN [ctx |-> [c1 EXCEPT !.d_addr = r.dest], ret |-> r.ret]

\* socks_set_addrname(ctx, name, port) on a live context.  d_name_len holds
\* strlen(name) in full, as the test against 255 that follows presupposes.
socks_set_addrname(c, name, port) ==
  IF IsEmptyStr(name) \/ IsEmptyStr(port)
    THEN [ctx |-> c, ret |-> 0 - SOCKS_ERR_BAD_ARG]
  ELSE LET c1 == [c EXCEPT !.d_name_len = strlen(name)]
       IN IF c1.d_name_len > MAX_FIELD_LEN
            THEN [ctx |-> c1, ret |-> 0 - SOCKS_ERR_TOO_LONG]
            ELSE [ctx |-> [c1 EXCEPT !.atyp = SOCKS_ATYP_NAME,
                                     !.d_port = htons(atoi(port)),
                                     !.d_addr = memcpy(@, name, c1.d_name_len)],
                  ret |-> SOCKS_ERR_OK]

(***************************************************************************)
(* The operating system: open descriptors and the resolver's lists.        *)
(* os.fds is the set of open descriptors, os.conn those connected to a     *)
(* peer; os.heap[r][k] counts how often node k of the r-th list returned   *)
(* by getaddrinfo has been released.                                       *)
(***************************************************************************)
FIRST_FD == 3

\* socket(): the lowest descriptor not in use.
LowestFree(fds) ==
  CHOOSE f \in FIRST_FD .. (FIRST_FD + Cardinality(fds)) :
    f \notin fds /\ \A g \in FIRST_FD .. (f - 1) : g \in fds

\* freeaddrinfo(p): releases the node p points to and every node after it.
freeaddrinfo(heap, p) ==
  [heap EXCEPT ![p.list] =
     [k \in 1 .. Len(@) |-> IF k >= p.node THEN @[k] + 1 ELSE @[k]]]

\* The candidate loop without its "break": the last candidate whose
\* socket() succeeds is the one kept.
RECURSIVE FirstSocket_NoBreak(_, _)
FirstSocket_NoBreak(sockok, k) ==
  IF k > Len(sockok) THEN k
  ELSE LET later == FirstSocket_NoBreak(sockok, k + 1)
       IN IF later <= Len(sockok) THEN later
          ELSE IF sockok[k] THEN k ELSE later

\* The index of the first candidate whose socket() succeeds, or n + 1: the
\* loop "for (addr = res; addr; addr = addr->ai_next)".
RECURSIVE FirstSocket(_, _)
FirstSocket(sockok, k) ==
  IF k > Len(sockok) THEN k
  ELSE IF sockok[k] THEN k
  ELSE FirstSocket(sockok, k + 1)

DEFAULT_PORT == <<49, 48, 56, 48>>   \* "1080"

\* The switch on getaddrinfo's result.
GaiError(gai) ==
  CASE gai = "EAI_BADFLAGS" -> 0 - SOCKS_ERR_BAD_ARG
    [] gai = "EAI_AGAIN" -> 0 - SOCKS_ERR_CONN_REFUSED
    [] gai = "EAI_FAIL" -> 0 - SOCKS_ERR_SERV_FAIL
    [] gai = "EAI_MEMORY" -> 0 - SOCKS_ERR_NO_MEM
    [] gai = "EAI_SYSTEM" -> 0 - SOCKS_ERR_SYS_ERRNO
    [] OTHER -> 0 - SOCKS_ERR_ADDR_NOTSUPP

\* The pointer socks_set_server stores in ctx->server.s_addr (line 195):
\* the candidate chosen by the loop, in the list res.
StoredAddr(res, k) == [list |-> res, node |-> k]

\* socks_set_server(ctx, host, port) on a live context.  env.gai is the
\* resolver's result, env.sockok[k] whether socket() succeeds for the
\* k-th candidate.
socks_set_server(c, o, host, port, env) ==
  IF IsEmptyStr(host)
    THEN [ctx |-> c, os |-> o, ret |-> 0 - SOCKS_ERR_BAD_ARG, tried |-> 0]
  ELSE IF env.gai # "OK"
    THEN [ctx |-> c, os |-> o, ret |-> GaiError(env.gai), tried |-> 0]
  ELSE LET port1 == IF IsEmptyStr(port) THEN DEFAULT_PORT ELSE port
           res == Len(o.heap) + 1
           heap1 == Append(o.heap, Fill(Len(env.sockok), 0))
           k == FirstSocket(env.sockok, 1)
           fd == LowestFree(o.fds)
       IN IF k > Len(env.sockok)
            THEN [ctx |-> c,
                  os |-> [o EXCEPT !.heap =
                            freeaddrinfo(heap1, [list |-> res, node |-> 1])],
                  ret |-> 0 - SOCKS_ERR_SERV_FAIL,
                  tried |-> Len(env.sockok)]
            ELSE [ctx |-> [c EXCEPT !.server.fd = fd,
                                    !.server.s_addr = StoredAddr(res, k),
                                    !.server.s_port = htons(atoi(port1))],
                  os |-> [o EXCEPT !.heap = heap1, !.fds = @ \cup {fd}],
                  ret |-> 0,
                  tried |-> k]

(***************************************************************************)
(* Method negotiation and the username/password sub-negotiation.           *)
(* env.fail names the first system call of the invocation that fails       *)
(* ("none" when all succeed); env.m and env.s are the bytes the server     *)
(* answers with.                                                           *)
(***************************************************************************)
METHOD_REQUEST == <<SOCKS_VERSION, 2, SOCKS_NO_AUTH, SOCKS_AUTH_USERPASS>>

\* socks_get_auth_method(fd)
socks_get_auth_method(env) ==
  IF sockslib_send(env.fail # "send_methods") < 0
    THEN [ret |-> sockslib_send(FALSE), sent |-> <<>>, mread |-> FALSE]
  ELSE IF env.fail = "read_method"
    THEN [ret |-> 0 - SOCKS_ERR_SYS_ERRNO, sent |-> <<METHOD_REQUEST>>,
          mread |-> FALSE]
  ELSE [ret |-> env.m, sent |-> <<METHOD_REQUEST>>, mread |-> TRUE]

\* AuthFrame with each credential taken up to the end of what its array
\* holds (the text up to the terminating zero) instead of its stored length.
AuthFrame_WholeArray(a) ==
  <<SOCKS_AUTH_VERSION, Len(a.username.pre) % 256>> \o a.username.pre
    \o <<Len(a.password.pre) % 256>> \o a.password.pre

\* The frame built in auth_buf (lines 231-239); a length is stored into
\* one byte.
AuthFrame(a) ==
  <<SOCKS_AUTH_VERSION, a.user_len % 256>> \o BufRead(a.username, a.user_len)
    \o <<a.pass_len % 256>> \o BufRead(a.password, a.pass_len)

\* UserPassCase with the status test "res_buf[1] == 1": only status 1 is
\* taken as a refusal.
UserPassCase_StatusOne(c, env) ==
  IF env.fail = "malloc"
    THEN [ctx |-> c, ret |-> 0 - SOCKS_ERR_NO_MEM, sent |-> <<>>,
          allocs |-> 0, frees |-> 0, sread |-> FALSE]
  ELSE IF env.fail = "send_auth"
    THEN [ctx |-> c, ret |-> 0 - SOCKS_ERR_SYS_ERRNO, sent |-> <<>>,
          allocs |-> 1, frees |-> 1, sread |-> FALSE]
  ELSE IF env.fail = "read_auth"
    THEN [ctx |-> c, ret |-> 0 - SOCKS_ERR_SYS_ERRNO,
          sent |-> <<AuthFrame(c.auth)>>,
          allocs |-> 1, frees |-> 1, sread |-> FALSE]
  ELSE IF env.s = 1
    THEN [ctx |-> c, ret |-> 0 - SOCKS_ERR_BAD_AUTH,
          sent |-> <<AuthFrame(c.auth)>>,
          allocs |-> 1, frees |-> 1, sread |-> TRUE]
  ELSE [ctx |-> [c EXCEPT !.auth.authed = 1], ret |-> SOCKS_ERR_OK,
        sent |-> <<AuthFrame(c.auth)>>,
        allocs |-> 1, frees |-> 1, sread |-> TRUE]

\* UserPassCase with "return ret" in place of "goto malloc_cleanup" on a
\* failed read: auth_buf is not freed on that path.
UserPassCase_Leak(c, env) ==
  IF env.fail = "malloc"
    THEN [ctx |-> c, ret |-> 0 - SOCKS_ERR_NO_MEM, sent |-> <<>>,
          allocs |-> 0, frees |-> 0, sread |-> FALSE]
  ELSE IF env.fail = "send_auth"
    THEN [ctx |-> c, ret |-> 0 - SOCKS_ERR_SYS_ERRNO, sent |-> <<>>,
          allocs |-> 1, frees |-> 1, sread |-> FALSE]
  ELSE IF env.fail = "read_auth"
    THEN [ctx |-> c, ret |-> 0 - SOCKS_ERR_SYS_ERRNO,
          sent |-> <<AuthFrame(c.auth)>>,
          allocs |-> 1, frees |-> 0, sread |-> FALSE]
  ELSE IF env.s # 0
    THEN [ctx |-> c, ret |-> 0 - SOCKS_ERR_BAD_AUTH,
          sent |-> <<AuthFrame(c.auth)>>,
          allocs |-> 1, frees |-> 1, sread |-> TRUE]
  ELSE [ctx |-> [c EXCEPT !.auth.authed = 1], ret |-> SOCKS_ERR_OK,
        sent |-> <<AuthFrame(c.auth)>>,
        allocs |-> 1, frees |-> 1, sread |-> TRUE]

\* case SOCKS_AUTH_USERPASS of socks_connect_server, c.auth.method set.
UserPassCase(c, env) ==
  IF env.fail = "malloc"
    THEN [ctx |-> c, ret |-> 0 - SOCKS_ERR_NO_MEM, sent |-> <<>>,
          allocs |-> 0, frees |-> 0, sread |-> FALSE]
  ELSE IF sockslib_send(env.fail # "send_auth") < 0
    THEN [ctx |-> c, ret |-> sockslib_send(FALSE), sent |-> <<>>,
          allocs |-> 1, frees |-> 1, sread |-> FALSE]
  ELSE IF env.fail = "read_auth"
    THEN [ctx |-> c, ret |-> 0 - SOCKS_ERR_SYS_ERRNO,
          sent |-> <<AuthFrame(c.auth)>>,
          allocs |-> 1, frees |-> 1, sread |-> FALSE]
  ELSE IF env.s # 0
    THEN [ctx |-> c, ret |-> 0 - SOCKS_ERR_BAD_AUTH,
          sent |-> <<AuthFrame(c.auth)>>,
          allocs |-> 1, frees |-> 1, sread |-> TRUE]
  ELSE [ctx |-> [c EXCEPT !.auth.authed = 1], ret |-> SOCKS_ERR_OK,
        sent |-> <<AuthFrame(c.auth)>>,
        allocs |-> 1, frees |-> 1, sread |-> TRUE]

\* MethodSwitch with "ctx->auth.authed = 1" hoisted above the switch: an
\* unsupported method leaves the session marked authenticated.
MethodSwitch_AuthAny(c, env) ==
  CASE c.auth.method = SOCKS_NO_AUTH ->
         [ctx |-> [c EXCEPT !.auth.authed = 1], ret |-> SOCKS_ERR_OK,
          sent |-> <<>>, allocs |-> 0, frees |-> 0, sread |-> FALSE]
    [] c.auth.method = SOCKS_AUTH_USERPASS -> UserPassCase(c, env)
    [] OTHER ->
         [ctx |-> [c EXCEPT !.auth.authed = 1],
          ret |-> 0 - SOCKS_ERR_AUTH_NOTSUPP,
          sent |-> <<>>, allocs |-> 0, frees |-> 0, sread |-> FALSE]

\* MethodSwitch with the "break" of case SOCKS_NO_AUTH missing: control
\* falls through into the username/password sub-negotiation.
MethodSwitch_FallThrough(c, env) ==
  CASE c.auth.method = SOCKS_NO_AUTH ->
         UserPassCase([c EXCEPT !.auth.authed = 1], env)
    [] c.auth.method = SOCKS_AUTH_USERPASS -> UserPassCase(c, env)
    [] OTHER ->
         [ctx |-> c, ret |-> 0 - SOCKS_ERR_AUTH_NOTSUPP,
          sent |-> <<>>, allocs |-> 0, frees |-> 0, sread |-> FALSE]

\* The switch on ctx->auth.method of socks_connect_server.
MethodSwitch(c, env) ==
  CASE c.auth.method = SOCKS_NO_AUTH ->
         [ctx |-> [c EXCEPT !.auth.authed = 1], ret |-> SOCKS_ERR_OK,
          sent |-> <<>>, allocs |-> 0, frees |-> 0, sread |-> FALSE]
    [] c.auth.method = SOCKS_AUTH_USERPASS -> UserPassCase(c, env)
    [] OTHER ->
         [ctx |-> c, ret |-> 0 - SOCKS_ERR_AUTH_NOTSUPP,
          sent |-> <<>>, allocs |-> 0, frees |-> 0, sread |-> FALSE]

\* The traffic of one exchange in the order of its calls: sockslib_send of
\* each frame in sent, then, when it completed, sockslib_read of n bytes
\* (lines 30-34 and 241-245).
Exchange(sent, read, n) ==
  [i \in 1 .. Len(sent) |-> [d |-> "tx", len |-> Len(sent[i]), frame |-> sent[i]]]
    \o (IF read THEN <<[d |-> "rx", len |-> n, frame |-> <<>>]>> ELSE <<>>)

\* socks_connect_server(ctx) on a live context whose s_addr is not null.
\* io is the call's traffic on the socket, in order.
socks_connect_server(c, env) ==
  IF env.fail = "connect"
    THEN [ctx |-> c, ret |-> -1, sent |-> <<>>, allocs |-> 0, frees |-> 0,
          mread |-> FALSE, sread |-> FALSE, tcp |-> FALSE, io |-> <<>>]
  ELSE LET g == socks_get_auth_method(env) IN
       IF g.ret < 0
         THEN [ctx |-> c, ret |-> g.ret, sent |-> g.sent, allocs |-> 0,
               frees |-> 0, mread |-> FALSE, sread |-> FALSE, tcp |-> TRUE,
               io |-> Exchange(g.sent, FALSE, 2)]
         ELSE LET r == MethodSwitch([c EXCEPT !.auth.method = g.ret], env)
              IN [ctx |-> r.ctx, ret |-> r.ret, sent |-> g.sent \o r.sent,
                  allocs |-> r.allocs, frees |-> r.frees,
                  mread |-> TRUE, sread |-> r.sread, tcp |-> TRUE,
                  io |-> Exchange(g.sent, TRUE, 2)
                           \o Exchange(r.sent, r.sread, 2)]

(***************************************************************************)
(* The CONNECT request and its reply.                                      *)
(***************************************************************************)
\* RequestAddress with the IPv4 length used for every variant: a domain
\* name is sent as the first four cells of the union.
RequestAddress_Fixed4(c) ==
  CASE c.atyp = SOCKS_ATYP_IPV4 -> BufRead(c.d_addr, IP4_LEN)
    [] c.atyp = SOCKS_ATYP_NAME -> BufRead(c.d_addr, IP4_LEN)
    [] c.atyp = SOCKS_ATYP_IPV6 -> BufRead(c.d_addr, IP6_LEN)
    [] OTHER -> <<-1>>

\* The address part of the request (the switch on ctx->atyp); <<-1>> for
\* the default case.
RequestAddress(c) ==
  CASE c.atyp = SOCKS_ATYP_IPV4 -> BufRead(c.d_addr, IP4_LEN)
    [] c.atyp = SOCKS_ATYP_NAME ->
         <<c.d_name_len % 256>> \o BufRead(c.d_addr, c.d_name_len)
    [] c.atyp = SOCKS_ATYP_IPV6 -> BufRead(c.d_addr, IP6_LEN)
    [] OTHER -> <<-1>>

\* req_buf[0 .. len-1] as socks_connect builds it.
RequestFrame(c) ==
  <<SOCKS_VERSION, SOCKS_CMD_CONNECT, 0, c.atyp % 256>>
    \o RequestAddress(c) \o c.d_port

\* What the server puts on the stream in answer to a CONNECT: its reply
\* frame, whose address is sized by the reply's own atyp.
ReplyAddrLen(ratyp, rnlen) ==
  CASE ratyp = SOCKS_ATYP_IPV4 -> IP4_LEN
    [] ratyp = SOCKS_ATYP_IPV6 -> IP6_LEN
    [] OTHER -> 1 + rnlen

ReplyFrame(rep, ratyp, rnlen) ==
  <<SOCKS_VERSION, rep, 0, ratyp>>
    \o (IF ratyp = SOCKS_ATYP_NAME THEN <<rnlen>> \o Fill(rnlen, 110)
        ELSE Fill(ReplyAddrLen(ratyp, rnlen), 0))
    \o <<0, 0>>

\* The length socks_connect asks sockslib_read for (line 354).
ReplyReadLen(reqlen) == reqlen

\* The result socks_connect returns for the status it read (line 359).
ReplyResult(c) == IF c.reply # 0 THEN 0 - c.reply ELSE c.server.fd

\* socks_connect(ctx) on a live context.  env.sendok: the request is
\* written; env.rep, env.ratyp, env.rnlen: the server's reply; env.extra:
\* bytes the peer sends after the reply; env.eof: the peer then closes.
socks_connect(c, env) ==
  IF RequestAddress(c) = <<-1>>
    THEN [ctx |-> c, ret |-> 0 - SOCKS_ERR_ADDR_NOTSUPP, sent |-> <<>>,
          how |-> "nosend", got |-> 0, replylen |-> 0]
  ELSE LET req == RequestFrame(c)
           reply == ReplyFrame(env.rep, env.ratyp, env.rnlen)
           stream == reply \o Fill(env.extra, 88)
           rd == sockslib_read(ReplyReadLen(Len(req)), Len(stream),
                               env.eof, env.rerr)
       IN IF sockslib_send(env.sendok) < 0
            THEN [ctx |-> c, ret |-> sockslib_send(FALSE), sent |-> <<>>,
                  how |-> "nosend", got |-> 0, replylen |-> 0]
          ELSE IF rd.how # "ok"
            THEN [ctx |-> c, ret |-> rd.ret, sent |-> <<req>>,
                  how |-> rd.how, got |-> rd.got, replylen |-> Len(reply)]
          ELSE LET c1 == [c EXCEPT !.reply = Prefix(stream, rd.got)[2]]
               IN [ctx |-> c1, ret |-> ReplyResult(c1), sent |-> <<req>>,
                   how |-> "ok", got |-> rd.got, replylen |-> Len(reply)]

(***************************************************************************)
(* Teardown.                                                               *)
(***************************************************************************)
\* The descriptors socks_end closes (lines 367-368).
EndCloses(c) == IF c.server.fd # NOFD THEN {c.server.fd} ELSE {}

\* socks_end(ctx) on a live context: the descriptors it closes and the
\* operating system's state after its close and freeaddrinfo.
socks_end(c, o) ==
  [closed |-> EndCloses(c),
   os |-> [fds |-> o.fds \ EndCloses(c),
           conn |-> o.conn \ EndCloses(c),
           heap |-> IF c.server.s_addr # NULLADDR
                      THEN freeaddrinfo(o.heap, c.server.s_addr)
                      ELSE o.heap]]

(***************************************************************************)
(* Bounds of the model and the inputs the operations are called with.      *)
(***************************************************************************)
MaxBinds == 1      \* getaddrinfo results obtained in one run
MaxCands == 2      \* candidates in one resolver list
MaxExtra == 12     \* bytes the peer may send right after its CONNECT reply
MaxReplyName == 2  \* length of the domain name in a server's reply
MaxCode == 20      \* magnitude of the codes given to socks_strerror

\* What malloc'ed memory may hold.
Garbage == {0, 170}

IP4_GOOD == <<49, 46, 50, 46, 51, 46, 52>>             \* "1.2.3.4"
IP4_BAD == <<51, 48, 48, 46, 49, 46, 49, 46, 49>>      \* "300.1.1.1"
IP6_GOOD == <<58, 58, 49>>                             \* "::1"
IP6_BAD == <<58, 58, 103>>                             \* "::g"
NAME_SHORT == <<97, 98>>                               \* "ab"
NAME_MAX == Fill(MAX_FIELD_LEN, 121)                   \* 255 bytes
NAME_LONG == Fill(MAX_FIELD_LEN + 1, 120)              \* 256 bytes
PORT_80 == <<56, 48>>                                  \* "80"
PORT_443 == <<52, 52, 51>>                             \* "443"
PORT_9050 == <<57, 48, 53, 48>>                         \* "9050"
HOST == <<112>>                                        \* "p"
USER_1 == <<117>>                                      \* "u"
USER_4 == <<117, 115, 101, 114>>                       \* "user"
USER_LONG == Fill(MAX_FIELD_LEN + 1, 85)               \* 256 bytes
PASSWORD == <<112, 119>>                               \* "pw"
USER_5 == <<97, 108, 105, 99, 101>>                    \* "alice"
USER_MAX == Fill(MAX_FIELD_LEN, 86)                    \* 255 bytes
PASS_8 == <<112, 97, 115, 115, 119, 111, 114, 100>>    \* "password"
PASS_MAX == Fill(MAX_FIELD_LEN, 80)                    \* 255 bytes

GaiResults == {"OK", "EAI_BADFLAGS", "EAI_AGAIN", "EAI_FAIL", "EAI_MEMORY",
               "EAI_SYSTEM", "EAI_NONAME"}

\* The resolver's answers: its result and, on success, for each of the
\* 1..MaxCands candidates whether socket() will succeed.
SetServerEnvs ==
  {[gai |-> g, sockok |-> <<>>] : g \in GaiResults \ {"OK"}}
    \cup {[gai |-> "OK", sockok |-> f] :
            f \in UNION {[1 .. n -> BOOLEAN] : n \in 1 .. MaxCands}}

\* A resolver that returns one candidate, whose socket() succeeds.
OneCandidate == {[gai |-> "OK", sockok |-> <<TRUE>>]}

\* The resolver's answers in the runs of Spec: one usable candidate, a
\* usable candidate after an unusable one, no usable candidate, a failure.
FewCandidates ==
  OneCandidate \cup {[gai |-> "OK", sockok |-> <<FALSE, TRUE>>],
                     [gai |-> "OK", sockok |-> <<FALSE>>],
                     [gai |-> "EAI_FAIL", sockok |-> <<>>]}

\* The bytes a server answers with in the runs of Spec.
SampleMethods == {SOCKS_NO_AUTH, SOCKS_AUTH_USERPASS, 255}
SampleStatus == {0, 1}
SampleReplies == {0, SOCKS_ERR_CONN_REFUSED, SOCKS_ERR_BAD_AUTH}

ConnectServerFails ==
  {"none", "connect", "send_methods", "read_method", "malloc", "send_auth",
   "read_auth"}

ReplyShapes ==
  {[ratyp |-> SOCKS_ATYP_IPV4, rnlen |-> 0],
   [ratyp |-> SOCKS_ATYP_IPV6, rnlen |-> 0],
   [ratyp |-> SOCKS_ATYP_NAME, rnlen |-> MaxReplyName]}

IPV4_REPLY == {[ratyp |-> SOCKS_ATYP_IPV4, rnlen |-> 0]}

\* The environments of one socks_connect call: the request cannot be
\* written, the read fails, or the server's reply (of a shape in SH)
\* arrives, followed by one of XS further bytes.
ConnectEnvs(SH, XS) ==
  {[sendok |-> FALSE, rerr |-> FALSE, rep |-> 0, ratyp |-> SOCKS_ATYP_IPV4,
    rnlen |-> 0, extra |-> 0, eof |-> FALSE],
   [sendok |-> TRUE, rerr |-> TRUE, rep |-> 0, ratyp |-> SOCKS_ATYP_IPV4,
    rnlen |-> 0, extra |-> 0, eof |-> FALSE]}
    \cup {[sendok |-> TRUE, rerr |-> FALSE, rep |-> 0, ratyp |-> sh.ratyp,
           rnlen |-> sh.rnlen, extra |-> x, eof |-> e] :
            sh \in SH, x \in XS, e \in BOOLEAN}

(***************************************************************************)
(* State.                                                                  *)
(*   st        "absent" (no context), "live", "freed"                      *)
(*   ctx       the context's fields (meaningful while st = "live")         *)
(*   os        the operating system's descriptors and resolver lists       *)
(*   pc        "idle", "connect_read" (the caller is blocked in the read   *)
(*             of socks_connect) or "crashed"                              *)
(*   last      what the most recent call did: its result and its traffic   *)
(*   returned  descriptors socks_connect has returned to the caller        *)
(*   endClosed descriptors socks_end has closed                            *)
(*   affirmed  a server has affirmed the negotiated method                 *)
(*   want      the destination given by the most recent setter call        *)
(*   cred      the credentials given by the most recent successful          *)
(*             socks_set_auth call                                         *)
(*   msg       the code last given to socks_strerror and the string it     *)
(*             returned                                                    *)
(***************************************************************************)
VARIABLES st, ctx, os, pc, last, returned, endClosed, affirmed, want, cred,
          msg

vars ==
  <<st, ctx, os, pc, last, returned, endClosed, affirmed, want, cred, msg>>

NoCall ==
  [op |-> "none", ret |-> 0, sent |-> <<>>, m |-> -1, s |-> -1,
   allocs |-> 0, frees |-> 0, how |-> "", got |-> 0, replylen |-> 0,
   tried |-> 0, cands |-> <<>>, io |-> <<>>, fail |-> "none"]

Call(op, ret) == [NoCall EXCEPT !.op = op, !.ret = ret]

NoWant == [ok |-> FALSE, atyp |-> 0, addr |-> <<>>, port |-> 0]

NoCred == [u |-> <<>>, p |-> <<>>]

NoMsg == [code |-> 0, str |-> "(none)"]

Init ==
  /\ st = "absent"
  /\ ctx = RawCtx(0)
  /\ os = [fds |-> {}, conn |-> {}, heap |-> <<>>]
  /\ pc = "idle"
  /\ last = NoCall
  /\ returned = {}
  /\ endClosed = {}
  /\ affirmed = FALSE
  /\ want = NoWant
  /\ cred = NoCred
  /\ msg = NoMsg

Live == st = "live" /\ pc = "idle"

\* socks_init(): malloc fails, or a context is created in memory that
\* holds a byte of GS.
SocksInit(GS) ==
  /\ st = "absent" /\ pc = "idle"
  /\ \/ /\ last' = Call("socks_init", 0 - SOCKS_ERR_NO_MEM)
        /\ UNCHANGED <<st, ctx>>
     \/ \E g \in GS :
          /\ st' = "live"
          /\ ctx' = socks_init(g)
          /\ last' = Call("socks_init", 0)
  /\ UNCHANGED <<os, pc, returned, endClosed, affirmed, want, cred, msg>>

\* Any operation called with a null context: the "if (!ctx)" guards.
NullCtxCall ==
  /\ st = "absent" /\ pc = "idle"
  /\ \E op \in {"socks_set_auth", "socks_set_server", "socks_connect_server",
                "socks_set_addr4", "socks_set_addr6", "socks_set_addrname",
                "socks_connect"} :
       last' = Call(op, 0 - SOCKS_ERR_BAD_ARG)
  /\ UNCHANGED <<st, ctx, os, pc, returned, endClosed, affirmed, want, cred, msg>>

\* socks_end(NULL)
SocksEndNull ==
  /\ st = "absent" /\ pc = "idle"
  /\ last' = Call("socks_end", 0)
  /\ UNCHANGED <<st, ctx, os, pc, returned, endClosed, affirmed, want, cred, msg>>

SetAuth(US, PS) ==
  /\ Live
  /\ \E u \in US, p \in PS :
       LET r == socks_set_auth(ctx, u, p) IN
       /\ ctx' = r.ctx
       /\ last' = Call("socks_set_auth", r.ret)
       /\ cred' = IF r.ret = SOCKS_ERR_OK THEN [u |-> u, p |-> p] ELSE cred
  /\ UNCHANGED <<st, os, pc, returned, endClosed, affirmed, want, msg>>

SetServer(HS, PS, ES) ==
  /\ Live
  /\ \E host \in HS, port \in PS, env \in ES :
       LET r == socks_set_server(ctx, os, host, port, env) IN
       /\ (env.gai = "OK" => Len(os.heap) < MaxBinds)
       /\ ctx' = r.ctx
       /\ os' = r.os
       /\ last' = [Call("socks_set_server", r.ret) EXCEPT
                     !.tried = r.tried,
                     !.how = IF IsEmptyStr(host) THEN "" ELSE env.gai,
                     !.cands = IF IsEmptyStr(host) THEN <<>> ELSE env.sockok]
  /\ UNCHANGED <<st, pc, returned, endClosed, affirmed, want, cred, msg>>

\* Whether a call that fails at f (or nowhere) reads the server's method
\* byte, and whether it reads the status byte when the method byte is m:
\* the server's answers are drawn only when they are read.
ReadsMethod(c, f) ==
  socks_connect_server(c, [fail |-> f, m |-> 0, s |-> 0]).mread

ReadsStatus(c, f, m) ==
  socks_connect_server(c, [fail |-> f, m |-> m, s |-> 0]).sread

\* socks_connect_server(ctx).  With no server bound, s_addr is null and
\* the call dereferences it (lines 211-212): the process is stopped by the
\* fault or, where the load goes through, connect() fails on descriptor -1
\* and the call returns -1.  connect() fails on a socket that is already
\* connected.  The server's method byte is drawn from MB and its status
\* byte from SB when the call reads them.
ConnectServer(FS, MB, SB) ==
  /\ Live
  /\ IF ctx.server.s_addr = NULLADDR
       THEN /\ \E out \in {"crashed", "idle"} :
                 /\ pc' = out
                 /\ last' = [Call("socks_connect_server",
                                  IF out = "idle" THEN -1 ELSE 0)
                               EXCEPT !.how = "nullderef"]
            /\ UNCHANGED <<ctx, os, affirmed>>
       ELSE \E f \in FS :
            \E m0 \in IF ReadsMethod(ctx, f) THEN MB ELSE {0} :
            \E s0 \in IF ReadsStatus(ctx, f, m0) THEN SB ELSE {0} :
              LET env == [fail |-> f, m |-> m0, s |-> s0]
                  r == socks_connect_server(ctx, env)
              IN /\ (ctx.server.fd \in os.conn => f = "connect")
                 /\ ctx' = r.ctx
                 /\ pc' = pc
                 /\ os' = IF r.tcp
                            THEN [os EXCEPT !.conn = @ \cup {ctx.server.fd}]
                            ELSE os
                 /\ affirmed' =
                      (affirmed
                         \/ (r.mread /\ m0 = SOCKS_NO_AUTH)
                         \/ (r.mread /\ m0 = SOCKS_AUTH_USERPASS
                               /\ r.sread /\ s0 = 0))
                 /\ last' = [Call("socks_connect_server", r.ret) EXCEPT
                               !.sent = r.sent,
                               !.m = IF r.mread THEN m0 ELSE -1,
                               !.s = IF r.sread THEN s0 ELSE -1,
                               !.allocs = r.allocs, !.frees = r.frees,
                               !.io = r.io, !.fail = f,
                               !.how = IF r.tcp THEN "tcp" ELSE "notcp"]
  /\ UNCHANGED <<st, returned, endClosed, want, cred, msg>>

\* The destination a setter call asks for: want.ok says whether the most
\* recent setter call succeeded.
Wanted(ret, atyp, addr, port) ==
  IF ret = SOCKS_ERR_OK
    THEN [ok |-> TRUE, atyp |-> atyp, addr |-> addr,
          port |-> atoi(port) % 65536]
    ELSE [want EXCEPT !.ok = FALSE]

SetAddr4(IS, PS) ==
  /\ Live
  /\ \E ip \in IS, port \in PS :
       LET r == socks_set_addr4(ctx, ip, port) IN
       /\ ctx' = r.ctx
       /\ last' = Call("socks_set_addr4", r.ret)
       /\ want' = Wanted(r.ret, SOCKS_ATYP_IPV4, inet_pton4(ip), port)
  /\ UNCHANGED <<st, os, pc, returned, endClosed, affirmed, cred, msg>>

SetAddr6(IS, PS) ==
  /\ Live
  /\ \E ip \in IS, port \in PS :
       LET r == socks_set_addr6(ctx, ip, port) IN
       /\ ctx' = r.ctx
       /\ last' = Call("socks_set_addr6", r.ret)
       /\ want' = Wanted(r.ret, SOCKS_ATYP_IPV6, inet_pton6(ip), port)
  /\ UNCHANGED <<st, os, pc, returned, endClosed, affirmed, cred, msg>>

SetAddrName(NS, PS) ==
  /\ Live
  /\ \E name \in NS, port \in PS :
       LET r == socks_set_addrname(ctx, name, port) IN
       /\ ctx' = r.ctx
       /\ last' = Call("socks_set_addrname", r.ret)
       /\ want' = Wanted(r.ret, SOCKS_ATYP_NAME, name, port)
  /\ UNCHANGED <<st, os, pc, returned, endClosed, affirmed, cred, msg>>

\* Whether socks_connect reads the reply's status in environment e: the
\* server's status byte is drawn only when it is read.
ReadsReply(c, e) == socks_connect(c, e).how = "ok"

\* socks_connect(ctx) in one of the environments ES, the server's status
\* byte drawn from RB.  A request can be written only to a connected
\* socket.
Connect(RB, ES) ==
  /\ Live
  /\ \E e \in ES :
     \E rb \in IF ReadsReply(ctx, e) THEN RB ELSE {0} :
       LET env == [e EXCEPT !.rep = rb]
           r == socks_connect(ctx, env)
       IN
       /\ (env.sendok => ctx.server.fd \in os.conn)
       /\ ctx' = r.ctx
       /\ pc' = IF r.how = "block" THEN "connect_read" ELSE "idle"
       /\ returned' = IF r.how = "ok" /\ r.ret >= 0
                        THEN returned \cup {r.ret} ELSE returned
       /\ last' = [Call("socks_connect", r.ret) EXCEPT
                     !.sent = r.sent, !.how = r.how, !.got = r.got,
                     !.replylen = r.replylen]
  /\ UNCHANGED <<st, os, endClosed, affirmed, want, cred, msg>>

\* socks_strerror(code), callable in any state; it touches no state of the
\* library.
Strerror(CS) ==
  /\ pc = "idle"
  /\ \E code \in CS :
       /\ msg' = [code |-> code, str |-> socks_strerror(code)]
       /\ last' = Call("socks_strerror", 0)
  /\ UNCHANGED <<st, ctx, os, pc, returned, endClosed, affirmed, want, cred>>

\* socks_end(ctx): the context's memory is released with it.
SocksEnd ==
  /\ Live
  /\ LET r == socks_end(ctx, os) IN
       /\ os' = r.os
       /\ endClosed' = endClosed \cup r.closed
  /\ st' = "freed"
  /\ ctx' = RawCtx(0)
  /\ last' = Call("socks_end", 0)
  /\ cred' = NoCred
  /\ UNCHANGED <<pc, returned, affirmed, want, msg>>

(***************************************************************************)
(* Spec: every operation of the public interface, in any order.            *)
(***************************************************************************)
Next ==
  \/ SocksInit({170})
  \/ NullCtxCall
  \/ SocksEndNull
  \/ SetAuth({USER_1}, {PASSWORD})
  \/ SetServer({HOST}, {<<>>}, FewCandidates)
  \/ ConnectServer(ConnectServerFails, SampleMethods, SampleStatus)
  \/ SetAddr4({IP4_GOOD}, {PORT_80, <<>>})
  \/ SetAddr6({IP6_GOOD}, {PORT_80})
  \/ SetAddrName({NAME_SHORT}, {PORT_80})
  \/ Connect(SampleReplies, ConnectEnvs(IPV4_REPLY, {0}))
  \/ SocksEnd

Spec == Init /\ [][Next]_vars

(***************************************************************************)
(* SpecDest: the destination setters and the CONNECT exchange, with every  *)
(* kind of destination text, on a session bound to one server that         *)
(* selects "no authentication".                                            *)
(***************************************************************************)
NextDest ==
  \/ SocksInit(Garbage)
  \/ SetServer({HOST}, {<<>>}, OneCandidate)
  \/ ConnectServer({"none"}, {SOCKS_NO_AUTH}, {0})
  \/ SetAddr4({IP4_GOOD, IP4_BAD}, {PORT_80, PORT_443})
  \/ SetAddr6({IP6_GOOD, IP6_BAD}, {PORT_80, PORT_443})
  \/ SetAddrName({NAME_SHORT, NAME_MAX, NAME_LONG}, {PORT_80, PORT_443})
  \/ Connect({0}, ConnectEnvs(IPV4_REPLY, {MaxExtra}))

SpecDest == Init /\ [][NextDest]_vars

(***************************************************************************)
(* SpecReply: the CONNECT exchange with every shape of reply, for each     *)
(* variant of destination.                                                 *)
(***************************************************************************)
NextReply ==
  \/ SocksInit({170})
  \/ SetServer({HOST}, {<<>>}, OneCandidate)
  \/ ConnectServer({"none"}, {SOCKS_NO_AUTH}, {0})
  \/ SetAddr4({IP4_GOOD}, {PORT_80})
  \/ SetAddr6({IP6_GOOD}, {PORT_80})
  \/ SetAddrName({NAME_SHORT, NAME_MAX}, {PORT_80})
  \/ Connect(SampleReplies, ConnectEnvs(ReplyShapes, {0, MaxExtra}))
  \/ SocksEnd

SpecReply == Init /\ [][NextReply]_vars

(***************************************************************************)
(* SpecAuth: the negotiation with a server that may answer any byte.       *)
(***************************************************************************)
NextAuth ==
  \/ SocksInit({170})
  \/ SetServer({HOST}, {<<>>}, OneCandidate)
  \/ SetAuth({USER_4, USER_LONG}, {PASSWORD})
  \/ ConnectServer(ConnectServerFails, Byte, Byte)
  \/ SocksEnd

SpecAuth == Init /\ [][NextAuth]_vars

\* The server binding in full: every resolver answer, absent hosts and
\* explicit ports, with the operations that use or release the binding.
NextBind ==
  \/ SocksInit({170})
  \/ SetServer({HOST, NULLSTR}, {<<>>, PORT_9050}, SetServerEnvs)
  \/ ConnectServer({"none", "connect"}, {SOCKS_NO_AUTH}, {0})
  \/ SocksEnd

SpecBind == Init /\ [][NextBind]_vars

\* The sub-negotiation frame for credentials of several lengths, set once
\* or set over earlier ones.
NextCred ==
  \/ SocksInit(Garbage)
  \/ SetServer({HOST}, {<<>>}, OneCandidate)
  \/ SetAuth({USER_1, USER_5, USER_MAX, USER_LONG, <<>>},
             {PASSWORD, PASS_8, PASS_MAX})
  \/ ConnectServer({"none", "send_auth", "read_auth"},
                   {SOCKS_NO_AUTH, SOCKS_AUTH_USERPASS}, SampleStatus)
  \/ SocksEnd

SpecCred == Init /\ [][NextCred]_vars

\* socks_strerror on every code of magnitude up to MaxCode, in any state of
\* a session.
NextErr ==
  \/ SocksInit({170})
  \/ SetAuth({USER_1}, {PASSWORD})
  \/ SetAddr4({IP4_GOOD, IP4_BAD}, {PORT_80})
  \/ Strerror((0 - MaxCode) .. MaxCode)
  \/ SocksEnd

SpecErr == Init /\ [][NextErr]_vars

(***************************************************************************)
(* Properties.                                                             *)
(***************************************************************************)

\* C1: once socks_connect has returned the descriptor (reply status 0), a
\* later socks_end does not close that descriptor.
C1_EndLeavesReturnedSocket ==
  st = "freed" => returned \cap endClosed = {}

\* C2: socks_set_addr4 / socks_set_addr6 failing with AddressNotSupported,
\* after a destination was set, leaves atyp, the address payload and the
\* port as they were.
C2_BadIpLeavesDestination ==
  [][ (/\ last'.op \in {"socks_set_addr4", "socks_set_addr6"}
       /\ last'.ret = 0 - SOCKS_ERR_ADDR_NOTSUPP
       /\ want.ok)
      => (/\ ctx'.atyp = ctx.atyp
          /\ ctx'.d_addr = ctx.d_addr
          /\ ctx'.d_port = ctx.d_port) ]_vars

\* C3: socks_set_addrname failing with ValueTooLong leaves atyp, the name
\* bytes, the name length and the port as they were.
C3_LongNameLeavesDestination ==
  [][ (/\ last'.op = "socks_set_addrname"
       /\ last'.ret = 0 - SOCKS_ERR_TOO_LONG)
      => (/\ ctx'.atyp = ctx.atyp
          /\ ctx'.d_addr = ctx.d_addr
          /\ ctx'.d_name_len = ctx.d_name_len
          /\ ctx'.d_port = ctx.d_port) ]_vars

\* C4: a socks_connect whose read completed has taken from the stream
\* exactly the bytes of the server's reply frame (4 + address + 2, the
\* address sized by the reply's own atyp).
C4_ReadsExactlyTheReply ==
  (last.op = "socks_connect" /\ last.how = "ok")
    => last.got = last.replylen

\* C5: after socks_end every node of every list getaddrinfo returned has
\* been released exactly once.
C5_EveryCandidateReleasedOnce ==
  st = "freed"
    => \A r \in 1 .. Len(os.heap) :
         \A k \in 1 .. Len(os.heap[r]) : os.heap[r][k] = 1

\* C6: authed is 0 or 1; it is 0 right after socks_init; it is 1 only if
\* in some socks_connect_server call the server selected "no
\* authentication", or selected username/password and answered the
\* sub-negotiation with status 0.
C6_AuthedOnlyByServer ==
  st = "live"
    => /\ ctx.auth.authed \in {0, 1}
       /\ (ctx.auth.authed = 1 => affirmed)
       /\ (last.op = "socks_init" => ctx.auth.authed = 0)

\* C6 witness: a session authenticated by username/password on which a
\* destination setter has since been called.
C6_Witness ==
  /\ st = "live"
  /\ ctx.auth.authed = 1
  /\ ctx.auth.method = SOCKS_AUTH_USERPASS
  /\ last.op = "socks_set_addrname"

\* C7: when socks_connect_server has read the server's method byte m:
\* m = none-required gives success; m = username-password, once the status
\* s was read, gives success for s = 0 and BadAuth otherwise; any other m
\* gives AuthMethodNotSupported with nothing sent after the method request.
C7_ResultFollowsServer ==
  (last.op = "socks_connect_server" /\ last.m # -1)
    => /\ (last.m = SOCKS_NO_AUTH => last.ret = SOCKS_ERR_OK)
       /\ (last.m = SOCKS_AUTH_USERPASS /\ last.s = 0
             => last.ret = SOCKS_ERR_OK)
       /\ (last.m = SOCKS_AUTH_USERPASS /\ last.s > 0
             => last.ret = 0 - SOCKS_ERR_BAD_AUTH)
       /\ (last.m \notin {SOCKS_NO_AUTH, SOCKS_AUTH_USERPASS}
             => /\ last.ret = 0 - SOCKS_ERR_AUTH_NOTSUPP
                /\ last.sent = <<METHOD_REQUEST>>
                /\ last.s = -1)

\* C7 witness: the server answered "no acceptable method" (0xFF).
C7_Witness ==
  /\ last.op = "socks_connect_server"
  /\ last.m = 255
  /\ last.ret = 0 - SOCKS_ERR_AUTH_NOTSUPP

\* C8: a socks_connect_server call made with authed = 0 that returns a
\* failure leaves authed = 0 and has freed auth_buf as often as it
\* allocated it (once, when the sub-negotiation was entered).
C8_FailureFreesBuffer ==
  [][ (/\ last'.op = "socks_connect_server"
       /\ pc' = "idle"
       /\ last'.ret < 0
       /\ ctx.auth.authed = 0)
      => (/\ ctx'.auth.authed = 0
          /\ last'.frees = last'.allocs
          /\ (last'.m = SOCKS_AUTH_USERPASS /\ last'.ret # 0 - SOCKS_ERR_NO_MEM
                => last'.allocs = 1)) ]_vars

\* C8 witness: the sub-negotiation was refused by the server (BadAuth).
C8_Witness ==
  /\ last.op = "socks_connect_server"
  /\ last.ret = 0 - SOCKS_ERR_BAD_AUTH
  /\ last.s = 255
  /\ last.allocs = 1 /\ last.frees = 1
  /\ ctx.auth.authed = 0

\* C9: for the status r that socks_connect read: r = 0 returns the
\* session's socket; r # 0 returns a negative code naming a server-side
\* member of the taxonomy, never a client-side one; ctx->reply is r.
C9_ReplyMapsToServerErrors ==
  (last.op = "socks_connect" /\ last.how = "ok")
    => /\ (ctx.reply = 0 => last.ret = ctx.server.fd /\ last.ret >= 0)
       /\ (ctx.reply # 0
             => /\ last.ret < 0
                /\ (0 - last.ret) \in ServerSideErrs
                /\ (0 - last.ret) \notin ClientSideErrs)

\* The CONNECT request for the destination a setter call asked for.
WantedFrame ==
  <<SOCKS_VERSION, SOCKS_CMD_CONNECT, 0, want.atyp>>
    \o (IF want.atyp = SOCKS_ATYP_NAME
          THEN <<Len(want.addr)>> \o want.addr
          ELSE want.addr)
    \o <<want.port \div 256, want.port % 256>>

\* C10: when the most recent setter call succeeded, the frame that
\* socks_connect sends is [version, 1, 0, atyp, address, port] of that call
\* and nothing else.
C10_FrameIsLatestDestination ==
  (last.op = "socks_connect" /\ last.sent # <<>> /\ want.ok)
    => last.sent = <<WantedFrame>>

\* C10 witness: a domain name set over an earlier IPv4 address (whose last
\* two bytes are still in the union) has been sent.
C10_Witness ==
  /\ last.op = "socks_connect" /\ last.sent # <<>>
  /\ want.ok /\ want.atyp = SOCKS_ATYP_NAME /\ want.addr = NAME_SHORT
  /\ Cell(ctx.d_addr, 3) = 3 /\ Cell(ctx.d_addr, 4) = 4


\* C11: socks_connect on a live context for which no destination setter has
\* succeeded since socks_init returns AddressNotSupported, sends nothing,
\* reads nothing and leaves every field of the context as it was.
C11_UnsetDestinationSendsNothing ==
  [][ (/\ st = "live"
       /\ last'.op = "socks_connect"
       /\ want.atyp = 0)
      => (/\ last'.ret = 0 - SOCKS_ERR_ADDR_NOTSUPP
          /\ last'.sent = <<>>
          /\ last'.how = "nosend"
          /\ ctx' = ctx) ]_vars

\* The sub-negotiation frame for the credentials most recently stored.
CredFrame ==
  <<SOCKS_AUTH_VERSION, Len(cred.u)>> \o cred.u \o <<Len(cred.p)>> \o cred.p

\* C12: the sub-negotiation frame that socks_connect_server sends is
\* [auth version, u, username, p, password] for the credentials most
\* recently stored, 3 + u + p bytes long, with no byte of older credentials.
C12_AuthFrameIsStoredCredentials ==
  (last.op = "socks_connect_server" /\ Len(last.sent) = 2)
    => /\ last.sent[2] = CredFrame
       /\ Len(last.sent[2]) = 3 + Len(cred.u) + Len(cred.p)
       /\ Len(cred.u) <= MAX_FIELD_LEN /\ Len(cred.p) <= MAX_FIELD_LEN

\* C12 witness: credentials of lengths 5 and 8 were sent in a frame of 16
\* bytes, in arrays that held 255-byte credentials before.
C12_Witness ==
  /\ last.op = "socks_connect_server" /\ Len(last.sent) = 2
  /\ cred = [u |-> USER_5, p |-> PASS_8]
  /\ Len(last.sent[2]) = 16
  /\ last.sent[2][2] = 5 /\ last.sent[2][8] = 8
  /\ Len(ctx.auth.username.pre) = MAX_FIELD_LEN
  /\ Len(ctx.auth.password.pre) = MAX_FIELD_LEN

\* C13: in every state of a live context the username length, the password
\* length and the domain-name length, each written as one byte of a frame,
\* are at most 255.
C13_LengthFieldsFitOneByte ==
  st = "live"
    => /\ ctx.auth.user_len <= MAX_FIELD_LEN
       /\ ctx.auth.pass_len <= MAX_FIELD_LEN
       /\ ctx.d_name_len <= MAX_FIELD_LEN

\* C14: socks_strerror(c) and socks_strerror(-c) return the same string; it
\* is the table entry at |c| when |c| is in 0 .. SysErrno and the unknown
\* string otherwise; the call changes nothing of the session.
C14_StrerrorIgnoresSign ==
  [][ last'.op = "socks_strerror"
      => LET c == msg'.code
             a == IF c < 0 THEN 0 - c ELSE c
         IN /\ msg'.str = socks_strerror(0 - c)
            /\ (a <= SOCKS_ERR_SYS_ERRNO => msg'.str = StrTable[a + 1])
            /\ (a > SOCKS_ERR_SYS_ERRNO => msg'.str = UNKNOWN_ERROR)
            /\ (a = SOCKS_ERR_CONN_REFUSED
                  => msg'.str = "Connection refused")
            /\ <<st, ctx, os, pc, returned, endClosed>>'
                 = <<st, ctx, os, pc, returned, endClosed>> ]_vars

\* C14 witness: socks_strerror(-5) on a live session.
C14_Witness ==
  /\ last.op = "socks_strerror"
  /\ st = "live"
  /\ msg = [code |-> 0 - SOCKS_ERR_CONN_REFUSED, str |-> "Connection refused"]

\* C15: right after a successful socks_init no destination variant is
\* active, no server is bound (fd -1, no address, port 0), reply is -1,
\* authed and method are 0 and both credential lengths are 0; socks_end on
\* an absent context closes nothing, releases nothing and returns.
C15_CreateClearsAndEndNullIsNoop ==
  [][ /\ (last'.op = "socks_init" /\ st' = "live" /\ st = "absent")
           => /\ ctx'.atyp = 0
              /\ ctx'.server = [s_addr |-> NULLADDR, s_port |-> <<0, 0>>,
                                fd |-> NOFD]
              /\ ctx'.reply = -1
              /\ ctx'.auth.authed = 0 /\ ctx'.auth.method = 0
              /\ ctx'.auth.user_len = 0 /\ ctx'.auth.pass_len = 0
      /\ (last'.op = "socks_end" /\ st = "absent")
           => /\ os' = os /\ endClosed' = endClosed
              /\ st' = st /\ pc' = "idle" ]_vars

\* C15 witness: a context just created in memory that held nonzero bytes.
C15_Witness ==
  /\ last.op = "socks_init" /\ st = "live"
  /\ ctx.d_addr.rest = 170
  /\ ctx.auth.authed = 0 /\ ctx.server.fd = NOFD /\ ctx.reply = -1

\* C16: socks_set_server binds the first candidate, in the resolver's order,
\* whose socket() succeeds: the context holds the one descriptor created and
\* that candidate.  When the resolver fails or no candidate yields a socket
\* it returns the mapped error (ServerFailure when every candidate fails)
\* and leaves the server binding as it was.
C16_BindsFirstUsableCandidate ==
  [][ (last'.op = "socks_set_server" /\ st = "live")
      => LET r == last'.ret
             k == last'.tried
             c == last'.cands
             gai == last'.how
         IN /\ (r = 0
                  => /\ gai = "OK"
                     /\ k \in 1 .. Len(c) /\ c[k]
                     /\ \A j \in 1 .. (k - 1) : ~c[j]
                     /\ ctx'.server.s_addr = [list |-> Len(os'.heap), node |-> k]
                     /\ ctx'.server.fd \notin os.fds
                     /\ os'.fds = os.fds \cup {ctx'.server.fd})
            /\ (gai = "OK" /\ (\A j \in 1 .. Len(c) : ~c[j])
                  => r = 0 - SOCKS_ERR_SERV_FAIL)
            /\ (gai = "OK" /\ (\E j \in 1 .. Len(c) : c[j]) => r = 0)
            /\ (gai = "EAI_BADFLAGS" => r = 0 - SOCKS_ERR_BAD_ARG)
            /\ (gai = "EAI_AGAIN" => r = 0 - SOCKS_ERR_CONN_REFUSED)
            /\ (gai = "EAI_FAIL" => r = 0 - SOCKS_ERR_SERV_FAIL)
            /\ (gai = "EAI_MEMORY" => r = 0 - SOCKS_ERR_NO_MEM)
            /\ (gai = "EAI_SYSTEM" => r = 0 - SOCKS_ERR_SYS_ERRNO)
            /\ (gai = "EAI_NONAME" => r = 0 - SOCKS_ERR_ADDR_NOTSUPP)
            /\ (r < 0 => ctx'.server = ctx.server /\ os'.fds = os.fds) ]_vars

\* C16 witness: the second of two candidates was bound after socket()
\* failed for the first.
C16_Witness ==
  /\ last.op = "socks_set_server" /\ last.ret = 0
  /\ last.cands = <<FALSE, TRUE>> /\ last.tried = 2
  /\ ctx.server.s_addr.node = 2
  /\ ctx.server.fd \in os.fds

\* C17: the traffic of one socks_connect_server call whose TCP connect
\* succeeded.  The first thing sent is the method request [5, 2, 0, 2]; the
\* two-byte method reply is read before anything else is sent; at most one
\* further frame is sent, and only when the reply selected
\* username/password; with "no authentication" selected nothing follows;
\* nothing is sent after a send or a read has failed.
C17_TrafficOrder ==
  (last.op = "socks_connect_server" /\ last.how = "tcp")
    => LET io == last.io
           n == Len(io)
       IN /\ n <= 4
          /\ (n >= 1 => io[1] = [d |-> "tx", len |-> 4,
                                 frame |-> <<SOCKS_VERSION, 2, SOCKS_NO_AUTH,
                                             SOCKS_AUTH_USERPASS>>])
          /\ (n >= 2 => io[2] = [d |-> "rx", len |-> 2, frame |-> <<>>])
          /\ (n >= 3 => io[3].d = "tx" /\ last.m = SOCKS_AUTH_USERPASS)
          /\ (n = 4 => io[4] = [d |-> "rx", len |-> 2, frame |-> <<>>])
          /\ (last.m = SOCKS_NO_AUTH => n = 2)
          /\ (last.fail = "send_methods" => n = 0)
          /\ (last.fail = "read_method" => n = 1)
          /\ (last.fail = "send_auth" => n <= 2)
          /\ (last.fail = "read_auth" => n <= 3)

\* C17 witness: a complete username/password exchange, four transfers.
C17_Witness ==
  /\ last.op = "socks_connect_server" /\ last.how = "tcp"
  /\ Len(last.io) = 4
  /\ last.io[3].d = "tx" /\ last.io[3].frame = AuthFrame(ctx.auth)
  /\ last.m = SOCKS_AUTH_USERPASS /\ last.s = 0

\* C18: when socks_connect has sent its request and the stream holds the
\* server's complete reply and nothing more, the connection staying open,
\* the call returns: the caller is not left waiting in the read.
C18_ConnectReturnsOnCompleteReply ==
  (/\ last.op = "socks_connect"
   /\ last.sent # <<>>
   /\ last.how # "fail"
   /\ last.got = last.replylen)
    => pc = "idle"

\* C19: socks_connect sends a CONNECT request only on a session whose
\* authed flag is set, that is after a socks_connect_server that succeeded.
C19_RequestOnlyWhenAuthenticated ==
  (last.op = "socks_connect" /\ last.sent # <<>>)
    => ctx.auth.authed = 1

\* C20: socks_connect_server on a live context with no server bound returns
\* a negative error without using the absent address.
C20_UnboundConnectServerIsRefused ==
  (/\ last.op = "socks_connect_server"
   /\ st = "live"
   /\ ctx.server.s_addr = NULLADDR)
    => /\ pc = "idle"
       /\ last.ret < 0
       /\ last.how # "nullderef"
=============================================================================
